---- MODULE Spec2Model ----
(***************************************************************************)
(* Model of demos/epic6/demo_servers/filesystem_server.py: the stdio loop  *)
(* of main(), MCPFilesystemServer.handle_request / call_tool, the path     *)
(* guard is_safe_path and the three tool handlers, over a small explicit   *)
(* filesystem with directories, files and symbolic links.                  *)
(*                                                                         *)
(* A Python str is a sequence of one-character strings, so that            *)
(* str.startswith, split and join are computed character by character.     *)
(***************************************************************************)
EXTENDS Integers, Sequences, FiniteSets, TLC

VARIABLES
    tools,       \* self.tools: the advertised catalog
    safe_paths,  \* self.safe_paths: the configured safe roots
    fs,          \* the filesystem the process runs on
    pc,          \* position of main(): "read", "handle" or "stopped"
    line,        \* the line readline() returned last
    response,    \* the object printed in answer to line (NoValue until printed)
    ops,         \* filesystem calls made while handling line
    nin,         \* lines read so far
    nout,        \* lines printed so far
    nbad,        \* lines so far answered with an error
    stopped_by   \* "" while running, else "eof" or "interrupt"

vars == <<tools, safe_paths, fs, pc, line, response, ops, nin, nout, nbad, stopped_by>>

\* Number of input lines the environment supplies before end of input.
MaxLines == 3

\* Depth of symbolic links the kernel follows before giving up (ELOOP).
MaxSymlinks == 3

-----------------------------------------------------------------------------
(* Python strings *)

Str(s) == [i \in 1..Len(s) |-> SubSeq(s, i, i)]

\* str.startswith(prefix): raw character prefix test
StartsWith(s, prefix) ==
    /\ Len(prefix) <= Len(s)
    /\ SubSeq(s, 1, Len(prefix)) = prefix

\* Code-point order of the characters the model uses.
Alphabet == Str("\n '()-./0123456789:ABCDEFGHIJKLMNOPQRSTUVWXYZ[]_abcdefghijklmnopqrstuvwxyz{}~")

Ord(c) == CHOOSE i \in 1..Len(Alphabet) : Alphabet[i] = c

\* s < t for Python str (lexicographic by code point)
RECURSIVE StrLess(_, _)
StrLess(s, t) ==
    IF t = <<>> THEN FALSE
    ELSE IF s = <<>> THEN TRUE
    ELSE IF Head(s) = Head(t) THEN StrLess(Tail(s), Tail(t))
    ELSE Ord(Head(s)) < Ord(Head(t))

Digit(n) == SubSeq(Str("0123456789"), n + 1, n + 1)

\* str(n) for n >= 0
RECURSIVE IntToStr(_)
IntToStr(n) == IF n < 10 THEN Digit(n) ELSE IntToStr(n \div 10) \o Digit(n % 10)

\* s.split("/")
RECURSIVE SplitFrom(_, _)
SplitFrom(s, cur) ==
    IF s = <<>> THEN <<cur>>
    ELSE IF Head(s) = "/" THEN <<cur>> \o SplitFrom(Tail(s), <<>>)
    ELSE SplitFrom(Tail(s), Append(cur, Head(s)))

Split(s) == SplitFrom(s, <<>>)

\* "/".join(comps)
RECURSIVE Join(_)
Join(comps) ==
    IF comps = <<>> THEN <<>>
    ELSE IF Len(comps) = 1 THEN comps[1]
    ELSE comps[1] \o Str("/") \o Join(Tail(comps))

-----------------------------------------------------------------------------
(* os.path *)

\* The process environment: working directory and home directory.
CWD == Str("/srv")
HOME == Str("/home/u")

DotDot == Str("..")
Dot == Str(".")

isabs(path) == StartsWith(path, Str("/"))

\* os.path.join(a, b) for two components
join(a, b) ==
    IF isabs(b) THEN b
    ELSE IF a = <<>> \/ a[Len(a)] = "/" THEN a \o b
    ELSE a \o Str("/") \o b

\* The component loop of posixpath.normpath
RECURSIVE NormComps(_, _, _)
NormComps(comps, new_comps, initial_slashes) ==
    IF comps = <<>> THEN new_comps
    ELSE LET comp == Head(comps)
             rest == Tail(comps)
         IN IF comp = <<>> \/ comp = Dot
            THEN NormComps(rest, new_comps, initial_slashes)
            ELSE IF \/ comp # DotDot
                    \/ (initial_slashes = 0 /\ new_comps = <<>>)
                    \/ (new_comps # <<>> /\ new_comps[Len(new_comps)] = DotDot)
            THEN NormComps(rest, Append(new_comps, comp), initial_slashes)
            ELSE IF new_comps # <<>>
            THEN NormComps(rest, SubSeq(new_comps, 1, Len(new_comps) - 1), initial_slashes)
            ELSE NormComps(rest, new_comps, initial_slashes)

\* posixpath.normpath: purely lexical, it never looks at the filesystem
InitialSlashes(path) ==
    IF ~StartsWith(path, Str("/")) THEN 0
    ELSE IF StartsWith(path, Str("//")) /\ ~StartsWith(path, Str("///")) THEN 2
    ELSE 1

WithSlashes(initial_slashes, joined) ==
    IF initial_slashes = 2 THEN Str("//") \o joined
    ELSE IF initial_slashes = 1 THEN Str("/") \o joined
    ELSE IF joined = <<>> THEN Dot
    ELSE joined

NormWith(path, initial_slashes) ==
    WithSlashes(initial_slashes, Join(NormComps(Split(path), <<>>, initial_slashes)))

normpath(path) == IF path = <<>> THEN Dot ELSE NormWith(path, InitialSlashes(path))

\* os.path.abspath(path)
abspath(path) == normpath(IF isabs(path) THEN path ELSE join(CWD, path))

\* os.path.expanduser(path)
expanduser(path) ==
    IF StartsWith(path, Str("~/")) THEN HOME \o SubSeq(path, 2, Len(path))
    ELSE IF path = Str("~") THEN HOME
    ELSE path

-----------------------------------------------------------------------------
(* Python values, as they come out of json.loads *)

NoKeys == [k \in {} |-> 0]

PyStr(s) == [t |-> "str", s |-> s, n |-> Len(s), d |-> NoKeys]
PyNone == [t |-> "NoneType", s |-> Str("None"), n |-> 0, d |-> NoKeys]
PyInt(k) == [t |-> "int", s |-> IntToStr(k), n |-> k, d |-> NoKeys]
PyList(repr, len) == [t |-> "list", s |-> repr, n |-> len, d |-> NoKeys]
PyDict(d) ==
    [t |-> "dict", s |-> IF DOMAIN d = {} THEN Str("{}") ELSE Str("{...}"),
     n |-> Cardinality(DOMAIN d), d |-> d]

\* bool(v)
Truthy(v) == IF v.t = "NoneType" THEN FALSE ELSE v.n # 0

\* str(v), as an f-string renders it
Format(v) == v.s

\* v == "literal"
EqualsStr(v, s) == v.t = "str" /\ v.s = s

\* An outcome of a call: a returned value, or a raised exception; with the
\* filesystem it leaves behind and the filesystem calls it made.
NoValue == [none |-> TRUE]
Ret(value, f, o) ==
    [raised |-> FALSE, value |-> value, exc |-> [type |-> "", msg |-> <<>>],
     fs |-> f, ops |-> o]
Raise(type, msg, f, o) ==
    [raised |-> TRUE, value |-> NoValue, exc |-> [type |-> type, msg |-> msg],
     fs |-> f, ops |-> o]

\* v.get(key, default): only a dict has .get
HasGet(v) == v.t = "dict"
Get(v, key, default) == IF key \in DOMAIN v.d THEN v.d[key] ELSE default
NoGetMsg(v) == Str("'") \o Str(v.t) \o Str("' object has no attribute 'get'")

-----------------------------------------------------------------------------
(* The filesystem: canonical location (sequence of names) -> node *)

InvalidByte == <<"0xff">>

File(data) == [kind |-> "file", data |-> data, entries |-> <<>>, target |-> <<>>, readable |-> TRUE]
Dir(entries) == [kind |-> "dir", data |-> <<>>, entries |-> entries, target |-> <<>>, readable |-> TRUE]
Link(target) == [kind |-> "symlink", data |-> <<>>, entries |-> <<>>, target |-> target, readable |-> TRUE]
Unreadable(node) == [node EXCEPT !.readable = FALSE]

RECURSIVE NonEmpty(_)
NonEmpty(comps) ==
    IF comps = <<>> THEN <<>>
    ELSE IF Head(comps) = <<>> THEN NonEmpty(Tail(comps))
    ELSE <<Head(comps)>> \o NonEmpty(Tail(comps))

\* The names the kernel walks for a path; "a/" is walked as "a/."
Segs(path) ==
    NonEmpty(Split(path)) \o
        (IF Len(path) > 1 /\ path[Len(path)] = "/" THEN <<Dot>> ELSE <<>>)

Loc(path) == NonEmpty(Split(path))

Parent(loc) == IF loc = <<>> THEN <<>> ELSE SubSeq(loc, 1, Len(loc) - 1)

\* Kernel path resolution from directory cur, following symbolic links
RECURSIVE Walk(_, _, _, _)
Walk(f, cur, rest, fuel) ==
    IF rest = <<>> THEN [err |-> "", loc |-> cur]
    ELSE IF f[cur].kind # "dir" THEN [err |-> "ENOTDIR", loc |-> cur]
    ELSE LET seg == Head(rest)
             child == Append(cur, seg)
         IN IF seg = Dot THEN Walk(f, cur, Tail(rest), fuel)
            ELSE IF seg = DotDot THEN Walk(f, Parent(cur), Tail(rest), fuel)
            ELSE IF child \notin DOMAIN f THEN [err |-> "ENOENT", loc |-> child]
            ELSE IF f[child].kind = "symlink"
            THEN IF fuel = 0 THEN [err |-> "ELOOP", loc |-> child]
                 ELSE Walk(f, IF isabs(f[child].target) THEN <<>> ELSE cur,
                           Segs(f[child].target) \o Tail(rest), fuel - 1)
            ELSE Walk(f, child, Tail(rest), fuel)

\* Where the kernel finds the object a path names (realpath)
Resolve(f, path) ==
    IF path = <<>> THEN [err |-> "ENOENT", loc |-> <<>>]
    ELSE Walk(f, IF isabs(path) THEN <<>> ELSE Loc(CWD), Segs(path), MaxSymlinks)

Quoted(path) == Str("'") \o path \o Str("'")

\* The OSError a failed resolution raises
OsError(err, path, f, o) ==
    IF err = "ENOENT"
    THEN Raise("FileNotFoundError", Str("[Errno 2] No such file or directory: ") \o Quoted(path), f, o)
    ELSE IF err = "ENOTDIR"
    THEN Raise("NotADirectoryError", Str("[Errno 20] Not a directory: ") \o Quoted(path), f, o)
    ELSE IF err = "EISDIR"
    THEN Raise("IsADirectoryError", Str("[Errno 21] Is a directory: ") \o Quoted(path), f, o)
    ELSE IF err = "EACCES"
    THEN Raise("PermissionError", Str("[Errno 13] Permission denied: ") \o Quoted(path), f, o)
    ELSE Raise("OSError", Str("[Errno 40] Too many levels of symbolic links: ") \o Quoted(path), f, o)

Call(op, path) == [op |-> op, path |-> path]

Contains(s, c) == \E i \in 1..Len(s) : s[i] = c

\* with open(path, 'r', encoding='utf-8') as f: content = f.read()
ReadAt(f, path, r, o) ==
    IF r.err # "" THEN OsError(r.err, path, f, o)
    ELSE IF f[r.loc].kind = "dir" THEN OsError("EISDIR", path, f, o)
    ELSE IF ~f[r.loc].readable THEN OsError("EACCES", path, f, o)
    ELSE IF Contains(f[r.loc].data, InvalidByte[1])
    THEN Raise("UnicodeDecodeError",
               Str("'utf-8' codec can't decode byte 0xff in position 0: invalid start byte"),
               f, o)
    ELSE Ret(f[r.loc].data, f, o)

open_read(f, path) == ReadAt(f, path, Resolve(f, path), <<Call("open", path)>>)

\* os.listdir(path): the names in on-disk order
ListAt(f, path, r, o) ==
    IF r.err # "" THEN OsError(r.err, path, f, o)
    ELSE IF f[r.loc].kind # "dir" THEN OsError("ENOTDIR", path, f, o)
    ELSE IF ~f[r.loc].readable THEN OsError("EACCES", path, f, o)
    ELSE Ret(f[r.loc].entries, f, o)

listdir(f, path) == ListAt(f, path, Resolve(f, path), <<Call("listdir", path)>>)

\* os.path.isdir(path): False on any error
IsDirAt(f, r) == r.err = "" /\ f[r.loc].kind = "dir"

isdir(f, path) == IsDirAt(f, Resolve(f, path))

\* os.path.getsize(path): stat follows links
SizeAt(f, path, r, o) ==
    IF r.err # "" THEN OsError(r.err, path, f, o) ELSE Ret(Len(f[r.loc].data), f, o)

getsize(f, path) == SizeAt(f, path, Resolve(f, path), <<Call("getsize", path)>>)

-----------------------------------------------------------------------------
(* MCPFilesystemServer *)

Schema(properties, required) ==
    [type |-> "object", properties |-> properties, required |-> required]

StringProperty(description) == [type |-> "string", description |-> description]

\* self.tools, as __init__ builds it
ToolCatalog ==
    << [name |-> "read_file",
        description |-> "Read contents of a file with path validation",
        inputSchema |-> Schema([path |-> StringProperty("Path to the file to read")],
                               <<"path">>)],
       [name |-> "list_directory",
        description |-> "List contents of a directory",
        inputSchema |-> Schema([path |-> StringProperty("Path to the directory to list")],
                               <<"path">>)],
       [name |-> "write_file",
        description |-> "Write content to a file (requires confirmation)",
        inputSchema |-> Schema([path |-> StringProperty("Path where to write the file"),
                                content |-> StringProperty("Content to write to the file")],
                               <<"path", "content">>)] >>

\* self.safe_paths, as __init__ builds it
SafePaths ==
    << Str("demos/"), Str("test/"), Str("docs/"), Str("/tmp/"),
       expanduser(Str("~/Downloads/")), expanduser(Str("~/Documents/")) >>

\* Faulty variant: an error response that also carries an (empty) content arm.
ErrorWithContent(code, message) ==
    [error |-> [code |-> code, message |-> message], content |-> <<>>]

Error(code, message) == [error |-> [code |-> code, message |-> message]]

TextBlock(text) == [type |-> "text", text |-> text]

Content(blocks) == [content |-> blocks]

AccessDenied(path) ==
    Error(-32603, Str("Access denied: Path '") \o Format(path)
                  \o Str("' is outside safe directories"))

\* os.path.abspath applied to a JSON value: anything but a str is a TypeError
abspath_of(v) ==
    IF v.t = "str" THEN Ret(abspath(v.s), <<>>, <<>>)
    ELSE Raise("TypeError",
               Str("expected str, bytes or os.PathLike object, not ") \o Str(v.t),
               <<>>, <<>>)

\* The comparison of is_safe_path: resolved_path.startswith(safe_resolved)
under_root(resolved_path, safe_resolved) == StartsWith(resolved_path, safe_resolved)

\* is_safe_path(path): any exception inside is swallowed and means False
is_safe_path(path) ==
    \E resolved \in {abspath_of(path)} :
        IF resolved.raised THEN FALSE
        ELSE \E i \in 1..Len(safe_paths) :
                 under_root(resolved.value, abspath(safe_paths[i]))

\* The try block of read_file, given the outcome r of open(...).read()
read_result(f, path, r) ==
    IF ~r.raised
    THEN Ret(Content(<<TextBlock(Str("Contents of ") \o path.s \o Str(":\n\n")
                                 \o r.value)>>), f, r.ops)
    ELSE IF r.exc.type = "FileNotFoundError"
    THEN Ret(Error(-32603, Str("File not found: ") \o path.s), f, r.ops)
    ELSE IF r.exc.type = "PermissionError"
    THEN Ret(Error(-32603, Str("Permission denied: ") \o path.s), f, r.ops)
    ELSE r

\* Faulty variant: the file is opened before the guard is asked.
read_file_open_first(f, path) ==
    IF ~Truthy(path) THEN Ret(Error(-32602, Str("Path is required")), f, <<>>)
    ELSE IF path.t = "str" /\ open_read(f, path.s).raised
    THEN read_result(f, path, open_read(f, path.s))
    ELSE IF ~is_safe_path(path) THEN Ret(AccessDenied(path), f, <<>>)
    ELSE read_result(f, path, open_read(f, path.s))

read_file(f, path) ==
    IF ~Truthy(path) THEN Ret(Error(-32602, Str("Path is required")), f, <<>>)
    ELSE IF ~is_safe_path(path) THEN Ret(AccessDenied(path), f, <<>>)
    ELSE read_result(f, path, open_read(f, path.s))

\* The loop over os.listdir(path): one entry record per name, in listdir order
\* One pass of the loop body: the entry record of one name
stat_entry(f, entry, entry_path, is_dir, size) ==
    IF size.raised
    THEN Raise(size.exc.type, size.exc.msg, f, <<Call("isdir", entry_path)>> \o size.ops)
    ELSE Ret([name |-> entry,
              type |-> IF is_dir THEN "directory" ELSE "file",
              size |-> size.value], f, <<Call("isdir", entry_path)>> \o size.ops)

size_of(f, entry_path, is_dir) ==
    IF is_dir THEN Ret(0, f, <<>>) ELSE getsize(f, entry_path)

entry_of(f, entry, entry_path, is_dir) ==
    stat_entry(f, entry, entry_path, is_dir, size_of(f, entry_path, is_dir))

Prepend(one, more) ==
    IF more.raised THEN Raise(more.exc.type, more.exc.msg, more.fs, one.ops \o more.ops)
    ELSE Ret(<<one.value>> \o more.value, more.fs, one.ops \o more.ops)

\* The same outcome with the earlier filesystem calls o in front
Prepend2(o, r) == [r EXCEPT !.ops = o \o @]

RECURSIVE stat_entries(_, _, _)
ThenRest(f, path, names, one) ==
    IF one.raised THEN one ELSE Prepend(one, stat_entries(f, path, Tail(names)))

stat_entries(f, path, names) ==
    IF names = <<>> THEN Ret(<<>>, f, <<>>)
    ELSE ThenRest(f, path, names,
                  entry_of(f, Head(names), join(path, Head(names)),
                           isdir(f, join(path, Head(names)))))

\* Faulty variant: key=lambda x: x["name"], the type is forgotten.
key_less_by_name(a, b) == StrLess(a.name, b.name)

\* key=lambda x: (x["type"] == "file", x["name"]), compared as Python tuples
key_less(a, b) ==
    LET fa == (a.type = "file")
        fb == (b.type = "file")
    IN \/ (~fa /\ fb)
       \/ (fa = fb /\ StrLess(a.name, b.name))

\* insert x into a sorted list after every element not greater than it (stable)
RECURSIVE insert_sorted(_, _)
insert_sorted(sorted, x) ==
    IF sorted = <<>> THEN <<x>>
    ELSE IF key_less(x, Head(sorted)) THEN <<x>> \o sorted
    ELSE <<Head(sorted)>> \o insert_sorted(Tail(sorted), x)

\* entries.sort(key=...)
RECURSIVE sort_entries(_)
sort_entries(entries) ==
    IF entries = <<>> THEN <<>>
    ELSE insert_sorted(sort_entries(SubSeq(entries, 1, Len(entries) - 1)),
                       entries[Len(entries)])

FolderIcon == <<"U+1F4C1">>
PageIcon == <<"U+1F4C4">>
WarningSign == <<"U+26A0", "U+FE0F">>
CheckMark == <<"U+2705">>

\* One line of the listing
entry_line(entry) ==
    LET icon == IF entry.type = "directory" THEN FolderIcon ELSE PageIcon
        size_str == IF entry.type = "file"
                    THEN Str(" (") \o IntToStr(entry.size) \o Str(" bytes)")
                    ELSE <<>>
    IN icon \o Str(" ") \o entry.name \o size_str \o Str("\n")

RECURSIVE entry_lines(_)
entry_lines(entries) ==
    IF entries = <<>> THEN <<>>
    ELSE entry_line(Head(entries)) \o entry_lines(Tail(entries))

\* The loop of list_directory, given the outcome of os.listdir(path)
list_entries(f, path, names) ==
    IF names.raised THEN names
    ELSE Prepend2(names.ops, stat_entries(f, path, names.value))

\* The rest of the try block, given the outcome r of the loop
list_result(f, path, r) ==
    IF ~r.raised
    THEN Ret(Content(<<TextBlock(Str("Contents of directory ") \o path.s
                                 \o Str(":\n\n")
                                 \o entry_lines(sort_entries(r.value)))>>),
             f, r.ops)
    ELSE IF r.exc.type = "FileNotFoundError"
    THEN Ret(Error(-32603, Str("Directory not found: ") \o path.s), f, r.ops)
    ELSE IF r.exc.type = "PermissionError"
    THEN Ret(Error(-32603, Str("Permission denied: ") \o path.s), f, r.ops)
    ELSE r

list_directory(f, path) ==
    IF ~Truthy(path) THEN Ret(Error(-32602, Str("Path is required")), f, <<>>)
    ELSE IF ~is_safe_path(path) THEN Ret(AccessDenied(path), f, <<>>)
    ELSE list_result(f, path, list_entries(f, path.s, listdir(f, path.s)))

\* Index of the last "/" of s, 0 if none (str.rfind('/') + 1)
RECURSIVE LastSlash(_, _)
LastSlash(s, i) ==
    IF i = 0 THEN 0 ELSE IF s[i] = "/" THEN i ELSE LastSlash(s, i - 1)

RECURSIVE RStripSlash(_)
RStripSlash(s) ==
    IF s # <<>> /\ s[Len(s)] = "/" THEN RStripSlash(SubSeq(s, 1, Len(s) - 1)) ELSE s

\* os.path.dirname(path)
dirname(path) ==
    LET h == SubSeq(path, 1, LastSlash(path, Len(path)))
    IN IF h # <<>> /\ RStripSlash(h) # <<>> THEN RStripSlash(h) ELSE h

AddChild(f, dir, name, node) ==
    [l \in DOMAIN f \cup {Append(dir, name)} |->
        IF l = Append(dir, name) THEN node
        ELSE IF l = dir /\ Append(dir, name) \notin DOMAIN f
        THEN [f[l] EXCEPT !.entries = Append(@, name)]
        ELSE f[l]]

\* The walk of os.makedirs: missing directories are created on the way
RECURSIVE MkWalk(_, _, _, _)
MkWalk(f, cur, rest, fuel) ==
    IF f[cur].kind # "dir" THEN [err |-> "ENOTDIR", fs |-> f]
    ELSE IF rest = <<>> THEN [err |-> "", fs |-> f]
    ELSE LET seg == Head(rest)
             child == Append(cur, seg)
         IN IF seg = Dot THEN MkWalk(f, cur, Tail(rest), fuel)
            ELSE IF seg = DotDot THEN MkWalk(f, Parent(cur), Tail(rest), fuel)
            ELSE IF child \notin DOMAIN f
            THEN MkWalk(AddChild(f, cur, seg, Dir(<<>>)), child, Tail(rest), fuel)
            ELSE IF f[child].kind = "symlink"
            THEN IF fuel = 0 THEN [err |-> "ELOOP", fs |-> f]
                 ELSE MkWalk(f, IF isabs(f[child].target) THEN <<>> ELSE cur,
                             Segs(f[child].target) \o Tail(rest), fuel - 1)
            ELSE MkWalk(f, child, Tail(rest), fuel)

\* os.makedirs(name, exist_ok=True)
MadeDirs(f, name, w, o) ==
    IF w.err # "" THEN OsError(w.err, name, f, o) ELSE Ret(NoValue, w.fs, o)

makedirs(f, name) ==
    IF name = <<>> THEN OsError("ENOENT", name, f, <<Call("makedirs", name)>>)
    ELSE MadeDirs(f, name,
                  MkWalk(f, IF isabs(name) THEN <<>> ELSE Loc(CWD), Segs(name), MaxSymlinks),
                  <<Call("makedirs", name)>>)

\* with open(path, 'w', encoding='utf-8') as f: f.write(content)
WriteAt(f, path, data, r, o) ==
    IF r.err = ""
    THEN IF f[r.loc].kind = "dir" THEN OsError("EISDIR", path, f, o)
         ELSE IF ~f[r.loc].readable THEN OsError("EACCES", path, f, o)
         ELSE Ret(NoValue, [f EXCEPT ![r.loc].data = data], o)
    ELSE IF /\ r.err = "ENOENT"
            /\ Parent(r.loc) \in DOMAIN f
            /\ f[Parent(r.loc)].kind = "dir"
            /\ (path[Len(path)] # "/")
    THEN Ret(NoValue, AddChild(f, Parent(r.loc), r.loc[Len(r.loc)], File(data)), o)
    ELSE OsError(r.err, path, f, o)

open_write(f, path, data) ==
    WriteAt(f, path, data, Resolve(f, path), <<Call("open_w", path)>>)

\* len(content): defined for str, list and dict only
HasLen(v) == v.t \in {"str", "list", "dict"}
NoLenMsg(v) == Str("object of type '") \o Str(v.t) \o Str("' has no len()")

\* Faulty variant: the confirmation stub is switched off and the write goes through.
confirmation_skipped == FALSE

\* confirmation_required = True
confirmation_required == TRUE

\* The part of write_file behind "if confirmation_required": the real write
\* The outcome of the write proper, given the outcome w of open(...).write()
written(path, content, w) ==
    IF ~w.raised
    THEN Ret(Content(<<TextBlock(CheckMark \o Str(" Successfully wrote ")
                                 \o IntToStr(content.n) \o Str(" characters to ")
                                 \o path.s)>>), w.fs, w.ops)
    ELSE IF w.exc.type = "PermissionError"
    THEN Ret(Error(-32603, Str("Permission denied: ") \o path.s), w.fs, w.ops)
    ELSE w

\* After os.makedirs with outcome m: open the file and write
write_after(path, content, m) ==
    IF m.raised THEN m
    ELSE IF content.t # "str"
    THEN Raise("TypeError", Str("write() argument must be str, not ") \o Str(content.t),
               m.fs, m.ops)
    ELSE Prepend2(m.ops, written(path, content, open_write(m.fs, path.s, content.s)))

perform_write(f, path, content) ==
    write_after(path, content, makedirs(f, dirname(path.s)))

ConfirmationMetadata ==
    [requires_confirmation |-> TRUE, operation |-> "file_write", risk_level |-> "medium"]

write_file(f, path, content) ==
    IF ~Truthy(path) \/ content.t = "NoneType"
    THEN Ret(Error(-32602, Str("Path and content are required")), f, <<>>)
    ELSE IF ~is_safe_path(path) THEN Ret(AccessDenied(path), f, <<>>)
    ELSE IF confirmation_required
    THEN IF ~HasLen(content) THEN Raise("TypeError", NoLenMsg(content), f, <<>>)
         ELSE Ret([content |->
                      <<TextBlock(WarningSign
                          \o Str(" File write operation requires confirmation:\n")
                          \o Str("Path: ") \o path.s \o Str("\n")
                          \o Str("Content length: ") \o IntToStr(content.n)
                          \o Str(" characters\n")
                          \o Str("This operation would create/overwrite a file.\n")
                          \o Str("Please confirm this action through the UI."))>>,
                   metadata |-> ConfirmationMetadata], f, <<>>)
    ELSE perform_write(f, path, content)

\* call_tool(tool_name, arguments): every Exception of a handler becomes -32603
NoGet(v, f) == Raise("AttributeError", NoGetMsg(v), f, <<>>)

\* The try block of call_tool
dispatch(f, tool_name, arguments) ==
    IF EqualsStr(tool_name, Str("read_file"))
    THEN IF HasGet(arguments) THEN read_file(f, Get(arguments, "path", PyNone))
         ELSE NoGet(arguments, f)
    ELSE IF EqualsStr(tool_name, Str("list_directory"))
    THEN IF HasGet(arguments) THEN list_directory(f, Get(arguments, "path", PyNone))
         ELSE NoGet(arguments, f)
    ELSE IF EqualsStr(tool_name, Str("write_file"))
    THEN IF HasGet(arguments)
         THEN write_file(f, Get(arguments, "path", PyNone),
                         Get(arguments, "content", PyNone))
         ELSE NoGet(arguments, f)
    ELSE Ret(Error(-32602, Str("Unknown tool: ") \o Format(tool_name)), f, <<>>)

\* Faulty variant: call_tool without its except clause; the fault goes on to main().
tool_failed_uncaught(r) == r

\* except Exception as e
tool_failed(r) ==
    IF r.raised
    THEN Ret(Error(-32603, Str("Tool execution failed: ") \o r.exc.msg), r.fs, r.ops)
    ELSE r

call_tool(f, tool_name, arguments) == tool_failed(dispatch(f, tool_name, arguments))

\* handle_request(request): nothing is caught here
\* Faulty variant: the catalog is answered without its last descriptor.
list_tools_short(catalog) == [tools |-> SubSeq(catalog, 1, Len(catalog) - 1)]

\* return {"tools": self.tools}
list_tools(catalog) == [tools |-> catalog]

route(f, method, params) ==
    IF EqualsStr(method, Str("tools/list")) THEN Ret(list_tools(tools), f, <<>>)
    ELSE IF EqualsStr(method, Str("tools/call"))
    THEN IF ~HasGet(params) THEN NoGet(params, f)
         ELSE call_tool(f, Get(params, "name", PyNone),
                        Get(params, "arguments", PyDict(NoKeys)))
    ELSE Ret(Error(-32601, Str("Method not found: ") \o Format(method)), f, <<>>)

handle_request(f, request) ==
    IF ~HasGet(request) THEN NoGet(request, f)
    ELSE route(f, Get(request, "method", PyNone), Get(request, "params", PyDict(NoKeys)))

-----------------------------------------------------------------------------
(* The environment: filesystems the server may be started on, and input lines *)

At(path, node) == Loc(path) :> node

\* /tmp holds a file, a directory, a link to a file outside the safe roots, a
\* link to a directory outside them, an undecodable file and an unreadable one.
FsLinks ==
    At(Str("/"), Dir(<<Str("etc"), Str("tmp"), Str("tmpx"), Str("srv")>>))
    @@ At(Str("/etc"), Dir(<<Str("pw")>>))
    @@ At(Str("/etc/pw"), File(Str("root")))
    @@ At(Str("/tmpx"), Dir(<<Str("s")>>))
    @@ At(Str("/tmpx/s"), File(Str("key")))
    @@ At(Str("/srv"), Dir(<<Str("docs")>>))
    @@ At(Str("/srv/docs"), Dir(<<Str("r")>>))
    @@ At(Str("/srv/docs/r"), File(Str("doc")))
    @@ At(Str("/tmp"), Dir(<<Str("link"), Str("d"), Str("bin"), Str("a.txt"),
                             Str("out"), Str("priv")>>))
    @@ At(Str("/tmp/a.txt"), File(Str("hi")))
    @@ At(Str("/tmp/bin"), File(InvalidByte))
    @@ At(Str("/tmp/priv"), Unreadable(File(Str("x"))))
    @@ At(Str("/tmp/link"), Link(Str("/etc/pw")))
    @@ At(Str("/tmp/out"), Link(Str("/etc")))
    @@ At(Str("/tmp/d"), Dir(<<Str("b.txt"), Str("a_dir"), Str("c.txt")>>))
    @@ At(Str("/tmp/d/b.txt"), File(Str("bb")))
    @@ At(Str("/tmp/d/a_dir"), Dir(<<>>))
    @@ At(Str("/tmp/d/c.txt"), File(<<>>))

Without(f, locs) == [l \in DOMAIN f \ locs |-> f[l]]

\* The same tree with /etc/pw and /tmpx gone: /tmp/link dangles.
FsDangling ==
    At(Str("/"), Dir(<<Str("etc"), Str("tmp"), Str("srv")>>))
    @@ At(Str("/etc"), Dir(<<Str("sh")>>))
    @@ At(Str("/etc/sh"), File(Str("x")))
    @@ At(Str("/tmp/d"), Dir(<<Str("c.txt"), Str("b.txt"), Str("a_dir")>>))
    @@ Without(FsLinks, {Loc(Str("/etc/pw")), Loc(Str("/tmpx")), Loc(Str("/tmpx/s"))})

\* A tree with no symbolic link: /tmp/link is a file and /tmp/out a directory.
FsPlain ==
    At(Str("/tmp/link"), File(Str("own")))
    @@ At(Str("/tmp/out"), Dir(<<Str("pw")>>))
    @@ At(Str("/tmp/out/pw"), File(Str("mine")))
    @@ At(Str("/tmp/d"), Unreadable(Dir(<<Str("b.txt"), Str("a_dir"), Str("c.txt")>>)))
    @@ FsLinks

FileSystems == {FsLinks, FsDangling, FsPlain}

\* Values a caller may send as "path"
PathStrings ==
    { Str("/tmp/a.txt"), Str("/tmp"), Str("/tmp/d"), Str("/tmp/d/"), Str("/tmp/d/a_dir"),
      Str("/tmp/../etc/pw"), Str("/tmp/../etc"), Str("docs/../../etc/pw"),
      Str("/tmpx/s"), Str("/tmpx"), Str("/tmp/../tmpx/s"),
      Str("/tmp/link"), Str("/tmp/out"), Str("/tmp/out/pw"),
      Str("/etc/pw"), Str("/etc"), Str("/etc/none"),
      Str("docs/r"), Str("docs"), Str("//tmp/a.txt"),
      Str("/tmp/missing"), Str("/tmp/bin"), Str("/tmp/priv"), Str("/tmp/a.txt/x"),
      Str("test/x.txt"), Str("") }

PathValues ==
    {PyStr(p) : p \in PathStrings} \cup {PyNone, PyInt(123), PyInt(0), PyList(Str("[1]"), 1)}

WritePathValues ==
    { PyStr(Str("test/x.txt")), PyStr(Str("/tmp/a.txt")), PyStr(Str("/tmp/new/f")),
      PyStr(Str("/tmp/../etc/pw")), PyStr(Str("/tmpx/s")), PyStr(Str("/tmp/link")),
      PyStr(Str("/etc/pw")), PyStr(Str("")), PyInt(123) }

ContentValues == {PyStr(<<>>), PyStr(Str("xy")), PyInt(5), PyList(Str("[1]"), 1), PyNone}

Call2(method, params) == PyDict([method |-> PyStr(method), params |-> params])

ToolCall(name, arguments) ==
    Call2(Str("tools/call"), PyDict([name |-> name, arguments |-> arguments]))

ToolsList == PyDict([method |-> PyStr(Str("tools/list"))])

Requests ==
    { ToolsList,
      PyDict([method |-> PyStr(Str("resources/list"))]),
      PyDict(NoKeys),
      PyList(Str("[1]"), 1),
      PyNone,
      Call2(Str("tools/call"), PyList(Str("[1]"), 1)),
      Call2(Str("tools/call"), PyNone),
      PyDict([method |-> PyStr(Str("tools/call"))]),
      ToolCall(PyStr(Str("bogus_tool")), PyDict(NoKeys)),
      ToolCall(PyStr(Str("bogus_tool")), PyList(Str("[1]"), 1)),
      Call2(Str("tools/call"), PyDict([arguments |-> PyDict(NoKeys)])) }
    \cup { ToolCall(PyStr(name), PyList(Str("[1]"), 1)) :
             name \in {Str("read_file"), Str("list_directory"), Str("write_file")} }
    \cup { ToolCall(PyStr(name), PyDict(NoKeys)) :
             name \in {Str("read_file"), Str("list_directory"), Str("write_file")} }
    \cup { ToolCall(PyStr(name), PyDict([path |-> p])) :
             name \in {Str("read_file"), Str("list_directory")}, p \in PathValues }
    \cup { ToolCall(PyStr(Str("write_file")), PyDict([path |-> p])) : p \in WritePathValues }
    \cup { ToolCall(PyStr(Str("write_file")), PyDict([path |-> p, content |-> c])) :
             p \in WritePathValues, c \in ContentValues }

\* A line of input: either it parses to a value or json.loads raises
Line(valid, value) == [valid |-> valid, value |-> value]

Lines ==
    { Line(FALSE, PyStr(Str("not json"))), Line(FALSE, PyStr(<<>>)) }
    \cup { Line(TRUE, v) : v \in Requests }

NoLine == Line(FALSE, PyNone)

-----------------------------------------------------------------------------
(* main() *)

Init ==
    /\ tools = ToolCatalog
    /\ safe_paths = SafePaths
    /\ fs \in FileSystems
    /\ pc = "read"
    /\ line = NoLine
    /\ response = NoValue
    /\ ops = <<>>
    /\ nin = 0
    /\ nout = 0
    /\ nbad = 0
    /\ stopped_by = ""

IsError(resp) == "error" \in DOMAIN resp

\* line = sys.stdin.readline() returned a line
ReadLine ==
    /\ pc = "read"
    /\ nin < MaxLines
    /\ \E l \in Lines : line' = l
    /\ nin' = nin + 1
    /\ pc' = "handle"
    /\ response' = NoValue
    /\ ops' = <<>>
    /\ UNCHANGED <<tools, safe_paths, fs, nout, nbad, stopped_by>>

\* readline() returned "": if not line: break
ReadEof ==
    /\ pc = "read"
    /\ pc' = "stopped"
    /\ stopped_by' = "eof"
    /\ UNCHANGED <<tools, safe_paths, fs, line, response, ops, nin, nout, nbad>>

\* except KeyboardInterrupt: break (the interrupt arrives while readline blocks)
Interrupt ==
    /\ pc = "read"
    /\ pc' = "stopped"
    /\ stopped_by' = "interrupt"
    /\ UNCHANGED <<tools, safe_paths, fs, line, response, ops, nin, nout, nbad>>

Emit(resp, f, o) ==
    /\ response' = resp
    /\ fs' = f
    /\ ops' = o
    /\ nout' = nout + 1
    /\ nbad' = IF IsError(resp) THEN nbad + 1 ELSE nbad
    /\ pc' = "read"
    /\ UNCHANGED <<tools, safe_paths, line, nin, stopped_by>>

\* Faulty variant: JSONDecodeError is not caught, the loop dies on the bad line.
ParseErrorUncaught ==
    /\ pc = "handle"
    /\ ~line.valid
    /\ pc' = "stopped"
    /\ UNCHANGED <<tools, safe_paths, fs, line, response, ops, nin, nout, nbad, stopped_by>>

\* json.loads raised JSONDecodeError
ParseError ==
    /\ pc = "handle"
    /\ ~line.valid
    /\ Emit(Error(-32700, Str("Parse error: Invalid JSON")), fs, <<>>)

\* response = server.handle_request(request); print(json.dumps(response))
Respond ==
    /\ pc = "handle"
    /\ line.valid
    /\ \E r \in {handle_request(fs, line.value)} :
          /\ ~r.raised
          /\ Emit(r.value, r.fs, r.ops)

\* except Exception as e: handle_request raised
InternalError ==
    /\ pc = "handle"
    /\ line.valid
    /\ \E r \in {handle_request(fs, line.value)} :
          /\ r.raised
          /\ Emit(Error(-32603, Str("Internal error: ") \o r.exc.msg), r.fs, r.ops)

Next ==
    \/ ReadLine
    \/ ReadEof
    \/ Interrupt
    \/ ParseError
    \/ Respond
    \/ InternalError

Spec == Init /\ [][Next]_vars

-----------------------------------------------------------------------------
(* Reading the state: the request in `line` and the answer in `response` *)

\* The line read last has been answered, and `response` is that answer.
Answered == nin > 0 /\ nout = nin

Params == Get(line.value, "params", PyDict(NoKeys))
ToolName == Get(Params, "name", PyNone)
Arguments == Get(Params, "arguments", PyDict(NoKeys))
ArgPath == Get(Arguments, "path", PyNone)
ArgContent == Get(Arguments, "content", PyNone)

\* The line is a tools/call request that reaches call_tool.
IsCall ==
    /\ line.valid
    /\ HasGet(line.value)
    /\ EqualsStr(Get(line.value, "method", PyNone), Str("tools/call"))
    /\ HasGet(Params)

Calls(name) == IsCall /\ EqualsStr(ToolName, Str(name))

KnownTool == Calls("read_file") \/ Calls("list_directory") \/ Calls("write_file")

\* The call gets as far as the path guard with a non-empty string path.
GuardedCall ==
    /\ KnownTool
    /\ HasGet(Arguments)
    /\ ArgPath.t = "str"
    /\ Truthy(ArgPath)
    /\ (Calls("write_file") => ArgContent.t # "NoneType")

IsToolsList ==
    line.valid /\ HasGet(line.value)
    /\ EqualsStr(Get(line.value, "method", PyNone), Str("tools/list"))

HasContent(resp) == "content" \in DOMAIN resp

\* sub occurs in s
Includes(s, sub) ==
    \E i \in 0..(Len(s) - Len(sub)) : SubSeq(s, i + 1, i + Len(sub)) = sub

(* Canonical form of a path as realpath computes it: every symbolic link     *)
(* followed, "." and ".." removed, names that do not exist kept as written.  *)
RECURSIVE RealWalk(_, _, _, _)
RealWalk(f, cur, rest, fuel) ==
    IF rest = <<>> THEN cur
    ELSE LET seg == Head(rest)
             child == Append(cur, seg)
         IN IF seg = Dot THEN RealWalk(f, cur, Tail(rest), fuel)
            ELSE IF seg = DotDot THEN RealWalk(f, Parent(cur), Tail(rest), fuel)
            ELSE IF child \in DOMAIN f /\ f[child].kind = "symlink" /\ fuel > 0
            THEN RealWalk(f, IF isabs(f[child].target) THEN <<>> ELSE cur,
                          Segs(f[child].target) \o Tail(rest), fuel - 1)
            ELSE RealWalk(f, child, Tail(rest), fuel)

Canonical(f, path) ==
    RealWalk(f, IF isabs(path) THEN <<>> ELSE Loc(CWD), Segs(path), MaxSymlinks)

\* root equals p or is an ancestor of it, name by name
SegPrefix(root, p) == Len(root) <= Len(p) /\ SubSeq(p, 1, Len(root)) = root

\* The guard the specification asks for
CanonicallySafe(f, path) ==
    \E i \in 1..Len(safe_paths) :
        SegPrefix(Canonical(f, safe_paths[i]), Canonical(f, path))

\* The normalized absolute form of path (no link followed) is under a safe root
LexicallySafe(path) ==
    \E i \in 1..Len(safe_paths) :
        SegPrefix(Loc(abspath(safe_paths[i])), Loc(abspath(path)))

\* The path as written begins with a configured safe root
StartsUnderRoot(path) ==
    \E i \in 1..Len(safe_paths) : StartsWith(path, safe_paths[i])

-----------------------------------------------------------------------------
(* Claims *)

\* C1: for every path the guard answers true exactly when the canonical form
\* of the path equals a canonical safe root or lies under it name by name; a
\* path that only shares a string prefix with a root ("/tmpx/s") is unsafe.
C1_GuardIsSegmentWise ==
    (Answered /\ GuardedCall) =>
        (is_safe_path(ArgPath) <=> CanonicallySafe(fs, ArgPath.s))

\* C2: a path lexically under a safe root that is or passes through a symbolic
\* link leading outside every safe root is refused: read_file and
\* list_directory never return content found outside the safe roots.
C2_NoContentThroughLinks ==
    ( /\ Answered /\ GuardedCall
      /\ (Calls("read_file") \/ Calls("list_directory"))
      /\ LexicallySafe(ArgPath.s)
      /\ HasContent(response) )
    => CanonicallySafe(fs, ArgPath.s)

\* C3: a path that starts under a safe root and whose "." and ".." segments
\* take its normalized absolute form outside every safe root is answered by
\* all three tools with error -32603 "Access denied: Path '<path>' is outside
\* safe directories" and no content.
C3_TraversalDenied ==
    ( /\ Answered /\ GuardedCall
      /\ StartsUnderRoot(ArgPath.s)
      /\ ~LexicallySafe(ArgPath.s) )
    => response = AccessDenied(ArgPath)

\* The answer C4 asks of write_file: a non-empty path that passes the guard,
\* with any string content (the empty string included), is answered with a
\* content block and the metadata {requires_confirmation: true, operation:
\* "file_write", risk_level: "medium"}.
C4_Confirmation ==
    ( /\ Answered /\ GuardedCall /\ Calls("write_file")
      /\ is_safe_path(ArgPath)
      /\ ArgContent.t = "str" )
    => /\ HasContent(response)
       /\ ~IsError(response)
       /\ Len(response.content) = 1
       /\ response.content[1].type = "text"
       /\ Includes(response.content[1].text,
                   Str("Content length: ") \o IntToStr(Len(ArgContent.s))
                   \o Str(" characters\n"))
       /\ "metadata" \in DOMAIN response
       /\ response.metadata =
              [requires_confirmation |-> TRUE, operation |-> "file_write",
               risk_level |-> "medium"]

\* C4: the confirmation answer above in every state, and no step of the
\* server, whatever the request, changes the filesystem.
C4_WriteNeverPerformed == [](C4_Confirmation) /\ [][fs' = fs]_vars

\* C4 witness: an empty-string write to a safe path has been answered.
C4_Witness ==
    /\ Answered /\ GuardedCall /\ Calls("write_file")
    /\ ArgPath.s = Str("test/x.txt")
    /\ ArgContent = PyStr(<<>>)
    /\ "metadata" \in DOMAIN response
    /\ Loc(Str("/srv/test/x.txt")) \notin DOMAIN fs

\* C5 as stated: every response populates exactly one of content and error.
C5_ExactlyOneArm ==
    Answered => (HasContent(response) /\ ~IsError(response))
                \/ (IsError(response) /\ ~HasContent(response))

\* C5 amended: no response populates both arms; the answer to tools/list
\* carries the catalog under "tools" and neither arm; every other response
\* populates exactly one arm; an error carries an integer code and a
\* non-empty message and no content.
C5_ArmsOfResponse ==
    Answered =>
        /\ ~(HasContent(response) /\ IsError(response))
        /\ IF IsToolsList
           THEN DOMAIN response = {"tools"}
           ELSE HasContent(response) \/ IsError(response)
        /\ IsError(response) =>
              /\ DOMAIN response = {"error"}
              /\ DOMAIN response.error = {"code", "message"}
              /\ response.error.code \in {-32700, -32601, -32602, -32603}
              /\ Len(response.error.message) > 0

\* C5 witness: tools/list answered with neither arm, after an error answer.
C5_Witness ==
    /\ Answered /\ IsToolsList
    /\ ~HasContent(response) /\ ~IsError(response)
    /\ nbad >= 1

\* The fault, if any, that os.path.abspath raises on the path argument
GuardFault == abspath_of(ArgPath)

\* The outcome of the handler proper, before call_tool's except clause
HandlerOutcome == dispatch(fs, ToolName, Arguments)

FailedWith(resp, msg) ==
    /\ IsError(resp)
    /\ resp.error.code = -32603
    /\ Includes(resp.error.message, msg)

\* C6 as stated: for a known tool, every fault raised while the call runs
\* (other than not-found and permission) comes back as error -32603 whose
\* message includes the fault description.
C6_EveryFaultDescribed ==
    (Answered /\ KnownTool) =>
        /\ HandlerOutcome.raised => FailedWith(response, HandlerOutcome.exc.msg)
        /\ ( /\ HasGet(Arguments) /\ Truthy(ArgPath)
             /\ (Calls("write_file") => ArgContent.t # "NoneType")
             /\ GuardFault.raised )
           => FailedWith(response, GuardFault.exc.msg)

\* C6 amended: call_tool never lets a fault through. An unknown or missing
\* tool name is answered -32602 "Unknown tool"; a fault that leaves a handler
\* is answered -32603 "Tool execution failed: <fault description>"; a
\* non-empty path that is not a string faults inside the path guard, which
\* swallows it, and is answered -32603 access denied with no description.
C6_CallToolTotal ==
    (Answered /\ IsCall) =>
        /\ IsError(response) =>
              ~StartsWith(response.error.message, Str("Internal error"))
        /\ ~KnownTool =>
              response = [error |-> [code |-> -32602,
                                     message |-> Str("Unknown tool: ") \o Format(ToolName)]]
        /\ (KnownTool /\ HandlerOutcome.raised) =>
              response = [error |-> [code |-> -32603,
                                     message |-> Str("Tool execution failed: ")
                                                 \o HandlerOutcome.exc.msg]]
        /\ ( /\ KnownTool /\ HasGet(Arguments) /\ Truthy(ArgPath)
             /\ (Calls("write_file") => ArgContent.t # "NoneType")
             /\ GuardFault.raised )
           => /\ response.error.code = -32603
              /\ StartsWith(response.error.message, Str("Access denied: Path '"))

\* C6 witness: a handler fault (a directory given to read_file) was answered.
C6_Witness ==
    /\ Answered /\ Calls("read_file")
    /\ HandlerOutcome.raised
    /\ HandlerOutcome.exc.type = "IsADirectoryError"
    /\ response.error.code = -32603
    /\ response.error.message =
           Str("Tool execution failed: [Errno 21] Is a directory: '") \o ArgPath.s \o Str("'")

\* C7: every line read is answered by exactly one printed line, a malformed
\* line by error -32700; the loop leaves only on end of input or an
\* interrupt; tools/list is answered with the catalog whatever came before.
C7_LoopSurvives ==
    /\ pc = "handle" => nout = nin - 1
    /\ pc # "handle" => nout = nin
    /\ (Answered /\ ~line.valid) =>
          /\ IsError(response)
          /\ response.error.code = -32700
    /\ (Answered /\ IsToolsList) =>
          /\ ~IsError(response)
          /\ response.tools = ToolCatalog
    /\ pc = "stopped" <=> stopped_by \in {"eof", "interrupt"}
    /\ pc # "stopped" => stopped_by = ""

\* C7 witness: tools/list answered with the catalog after two bad lines.
C7_Witness ==
    /\ Answered /\ IsToolsList
    /\ nbad >= 2
    /\ response.tools = ToolCatalog

\* C8: whatever was asked before, tools/list answers exactly the three
\* descriptors read_file, list_directory, write_file in this order, and the
\* catalog and the safe roots stay as the constructor set them.
C8_Stateless ==
    /\ tools = ToolCatalog
    /\ safe_paths = SafePaths
    /\ (Answered /\ IsToolsList) =>
          /\ DOMAIN response = {"tools"}
          /\ Len(response.tools) = 3
          /\ response.tools[1].name = "read_file"
          /\ response.tools[2].name = "list_directory"
          /\ response.tools[3].name = "write_file"

\* C8 witness: tools/list answered as third line, after failed and good ones.
C8_Witness ==
    /\ Answered /\ IsToolsList
    /\ nin >= 3 /\ nbad >= 1 /\ nbad < nin - 1
    /\ Len(response.tools) = 3

\* s.split(sep) for a one-character separator
RECURSIVE SplitOn(_, _, _)
SplitOn(s, sep, cur) ==
    IF s = <<>> THEN <<cur>>
    ELSE IF Head(s) = sep THEN <<cur>> \o SplitOn(Tail(s), sep, <<>>)
    ELSE SplitOn(Tail(s), sep, Append(cur, Head(s)))

ListingHeader == Str("Contents of directory ") \o ArgPath.s \o Str(":\n\n")

ListingText == response.content[1].text

\* The lines of the rendered listing below its header
ListingLines ==
    LET body == SubSeq(ListingText, Len(ListingHeader) + 1, Len(ListingText))
        parts == SplitOn(body, "\n", <<>>)
    IN SubSeq(parts, 1, Len(parts) - 1)

\* What one rendered line says: its marker, the name, and what follows it
Rendered(text) ==
    LET after == SubSeq(text, 3, Len(text))
        name == SplitOn(after, " ", <<>>)[1]
    IN [folder |-> (text[1] = FolderIcon[1]),
        page |-> (text[1] = PageIcon[1]),
        space |-> text[2],
        name |-> name,
        suffix |-> SubSeq(after, Len(name) + 1, Len(after))]

Listed == [i \in 1..Len(ListingLines) |-> Rendered(ListingLines[i])]

\* The directory the listed path names, and what the filesystem holds there
ListedDir == fs[Canonical(fs, ArgPath.s)]
EntryNode(name) == fs[Canonical(fs, join(ArgPath.s, name))]

\* C9: a rendered listing holds every direct entry exactly once, directories
\* before files, each group by ascending name, with a size in bytes on files
\* and on files only.
C9_ListingOrder ==
    (Answered /\ GuardedCall /\ Calls("list_directory") /\ HasContent(response)) =>
        /\ StartsWith(ListingText, ListingHeader)
        /\ ListingText[Len(ListingText)] = "\n"
        /\ Len(Listed) = Len(ListedDir.entries)
        /\ {Listed[i].name : i \in 1..Len(Listed)}
               = {ListedDir.entries[i] : i \in 1..Len(ListedDir.entries)}
        /\ \A i \in 1..Len(Listed) :
              /\ Listed[i].space = " "
              /\ Listed[i].folder = (EntryNode(Listed[i].name).kind = "dir")
              /\ Listed[i].page = (EntryNode(Listed[i].name).kind = "file")
              /\ Listed[i].suffix =
                     IF EntryNode(Listed[i].name).kind = "file"
                     THEN Str(" (") \o IntToStr(Len(EntryNode(Listed[i].name).data))
                          \o Str(" bytes)")
                     ELSE <<>>
        /\ \A i, j \in 1..Len(Listed) :
              i < j =>
                 /\ Listed[j].folder => Listed[i].folder
                 /\ (Listed[i].folder = Listed[j].folder)
                       => StrLess(Listed[i].name, Listed[j].name)

\* C9 witness: entries stored as b.txt, a_dir, c.txt are shown as a_dir,
\* b.txt, c.txt, with a size on the files only.
C9_Witness ==
    /\ Answered /\ GuardedCall /\ Calls("list_directory") /\ HasContent(response)
    /\ ListedDir.entries = <<Str("b.txt"), Str("a_dir"), Str("c.txt")>>
    /\ [i \in 1..Len(Listed) |-> Listed[i].name]
           = <<Str("a_dir"), Str("b.txt"), Str("c.txt")>>
    /\ Listed[1].suffix = <<>>
    /\ Listed[2].suffix = Str(" (2 bytes)")

\* The call has passed required-argument validation and asks the guard
ReachesGuard ==
    /\ KnownTool
    /\ HasGet(Arguments)
    /\ Truthy(ArgPath)
    /\ (Calls("write_file") => ArgContent.t # "NoneType")

FilesystemErrors ==
    {Str("File not found: "), Str("Directory not found: "), Str("Permission denied: ")}

\* C10: validation, then guard, then filesystem. A non-empty path that fails
\* the guard is answered -32603 access denied with nothing but the path in
\* the message, without any filesystem call, and the answer is the same on
\* every filesystem; "File not found", "Directory not found" and "Permission
\* denied" are only ever said about paths that passed the guard.
C10_DeniedRevealsNothing ==
    (Answered /\ KnownTool) =>
        /\ (ReachesGuard /\ ~is_safe_path(ArgPath)) =>
              /\ ops = <<>>
              /\ response =
                     [error |-> [code |-> -32603,
                                 message |-> Str("Access denied: Path '")
                                             \o Format(ArgPath)
                                             \o Str("' is outside safe directories")]]
              /\ \A f \in FileSystems :
                     /\ ~handle_request(f, line.value).raised
                     /\ handle_request(f, line.value).value = response
                     /\ handle_request(f, line.value).ops = <<>>
        /\ ops # <<>> => (ReachesGuard /\ is_safe_path(ArgPath))
        /\ ( /\ IsError(response)
             /\ \E m \in FilesystemErrors : StartsWith(response.error.message, m) )
           => (ReachesGuard /\ is_safe_path(ArgPath))

\* C10 witness: a file that exists outside the safe roots was asked for and
\* the answer is the access-denied error, the same as where it does not exist.
C10_Witness ==
    /\ Answered /\ Calls("read_file") /\ ReachesGuard
    /\ ArgPath.s = Str("/etc/pw")
    /\ Resolve(fs, ArgPath.s).err = ""
    /\ \E f \in FileSystems : Resolve(f, ArgPath.s).err = "ENOENT"
    /\ StartsWith(response.error.message, Str("Access denied"))
    /\ ops = <<>>

====
